---------------------------- MODULE Spec2Model ----------------------------
(***************************************************************************)
(* Stockr: a Streamlit dashboard (src/dosc.py) and two batch export        *)
(* scripts (src/get_stock_data.py).                                        *)
(*                                                                         *)
(* Conventions of the model                                                *)
(*  - a date is the number of days since 1970-01-01;                       *)
(*  - a data frame is a sequence of rows, a row is a record                *)
(*    [Date, Ticker, Close, Volume, Daily_Return]; Open, High and Low are  *)
(*    carried by the code untouched and are not part of a row;             *)
(*  - prices are positive integers, and a Daily_Return is an exact         *)
(*    fraction <<numerator, denominator>> in lowest terms; the fraction    *)
(*    with denominator 0 stands for NaN;                                   *)
(*  - Python's None is a record with isNone = TRUE.                        *)
(***************************************************************************)
EXTENDS Integers, Sequences, FiniteSets, TLC

\* ------------------------------------------------------------------ bounds

\* datetime.date.today() of the session: 2024-10-04.
Today == 20000

\* Trading days of a raw quote table in SpecNormalize.
MaxDays == 3

\* Dates, besides the leading one, of a raw quote table in SpecWindow.
MaxWindowDates == 2

\* Provider accessors that may raise within one cycle of Spec.
MaxFailures == 1

\* Rows the provider may return for one ticker in SpecExport.
MaxRows == 4

\* ----------------------------------------------------------- small helpers

Abs(n) == IF n < 0 THEN -n ELSE n

RECURSIVE GCD(_, _)
GCD(a, b) == IF b = 0 THEN a ELSE GCD(b, a % b)

RECURSIVE SeqSum(_)
SeqSum(s) == IF s = <<>> THEN 0 ELSE Head(s) + SeqSum(Tail(s))

Range(s) == {s[i] : i \in DOMAIN s}

\* ---------------------------------------------------------------- fractions

NaN == <<0, 0>>

IsNaN(r) == r[2] = 0

Rat(n, d) ==
    IF d = 0 THEN NaN
    ELSE LET s == IF d < 0 THEN -1 ELSE 1
             g == GCD(Abs(n), Abs(d))
         IN  <<(s * n) \div g, (s * d) \div g>>

RatDiv(a, b) == IF IsNaN(a) \/ IsNaN(b) THEN NaN ELSE Rat(a[1] * b[2], a[2] * b[1])

RatSub(a, b) == IF IsNaN(a) \/ IsNaN(b) THEN NaN ELSE Rat(a[1] * b[2] - b[1] * a[2], a[2] * b[2])

RatMul(a, b) == IF IsNaN(a) \/ IsNaN(b) THEN NaN ELSE Rat(a[1] * b[1], a[2] * b[2])

\* ----------------------------------------------------------------- calendar

\* The civil date [y, m, d] of a day number (proleptic Gregorian calendar).
CivilFromDays(days) ==
    LET z   == days + 719468
        era == z \div 146097
        doe == z - era * 146097
        yoe == (doe - doe \div 1460 + doe \div 36524 - doe \div 146096) \div 365
        doy == doe - (365 * yoe + yoe \div 4 - yoe \div 100)
        mp  == (5 * doy + 2) \div 153
        d   == doy - (153 * mp + 2) \div 5 + 1
        m   == IF mp < 10 THEN mp + 3 ELSE mp - 9
    IN  [y |-> yoe + era * 400 + (IF m <= 2 THEN 1 ELSE 0), m |-> m, d |-> d]

\* pandas offset alias 'MS': the first day of the date's calendar month.
MonthStart(days) == days - (CivilFromDays(days).d - 1)

NextMonthStart(ms) == MonthStart(ms + 31)


\* ------------------------------------------------------- provider's answers

\* The tickers the data provider knows, in the order of its columns.
Tickers == <<"AAPL", "MSFT">>

\* A (date, ticker) cell of the wide table yf.download returns; has = FALSE is
\* a cell whose values are all NaN.
Cell(c, v) == [has |-> TRUE, Close |-> c, Volume |-> v]

NoCell == [has |-> FALSE, Close |-> 0, Volume |-> 0]

\* What one call of yf.download gives: it raises, or returns a wide table
\* with one row per date (ascending); multi tells whether the columns are a
\* MultiIndex (price, ticker) or flat (a single ticker).
DownloadRaises == [raises |-> TRUE, multi |-> TRUE, columns |-> <<>>, rows |-> <<>>]

DownloadTable(multi, columns, rows) ==
    [raises |-> FALSE, multi |-> multi, columns |-> columns, rows |-> rows]

\* ---------------------------------------------------- dosc.py: get_stock_data

None == [isNone |-> TRUE, df |-> <<>>]

Frame(df) == [isNone |-> FALSE, df |-> df]

Msg(kind, text) == [kind |-> kind, text |-> text]

LongRow(w, t) ==
    [Date |-> w.Date, Ticker |-> t, Close |-> w.q[t].Close,
     Volume |-> w.q[t].Volume, Daily_Return |-> NaN]

RECURSIVE StackRow(_, _)
StackRow(w, cols) ==
    IF cols = <<>> THEN <<>>
    ELSE (IF w.q[Head(cols)].has THEN <<LongRow(w, Head(cols))>> ELSE <<>>)
         \o StackRow(w, Tail(cols))

\* all_data.stack(level=1).rename_axis(['Date', 'Ticker']).reset_index(): one
\* row per (date, ticker), dates outermost, the all-NaN cells dropped.
RECURSIVE Stack(_, _)
Stack(rows, cols) ==
    IF rows = <<>> THEN <<>>
    ELSE StackRow(Head(rows), cols) \o Stack(Tail(rows), cols)

\* all_data.reset_index(); df['Ticker'] = ticker_symbols[0]
FlatFrame(rows, col, ticker) ==
    [i \in DOMAIN rows |->
        [Date |-> rows[i].Date, Ticker |-> ticker, Close |-> rows[i].q[col].Close,
         Volume |-> rows[i].q[col].Volume, Daily_Return |-> NaN]]

\* The row pct_change compares row i with: the nearest earlier row of the same
\* group (0 when row i is the first of its group).
\* (without the groupby it is simply the row above)
PrevUngrouped(df, i) == i - 1

PrevInGroup(df, i) ==
    LET js == {j \in 1..(i - 1) : df[j].Ticker = df[i].Ticker}
    IN  IF js = {} THEN 0 ELSE CHOOSE j \in js : \A k \in js : k <= j

\* Series.pct_change(): close[i] / close[prev] - 1, NaN on a group's first row.
PctChange(df, i, prev) ==
    IF prev = 0 THEN NaN
    ELSE RatSub(RatDiv(Rat(df[i].Close, 1), Rat(df[prev].Close, 1)), Rat(1, 1))

\* df['Daily_Return'] = df.groupby('Ticker')['Close'].pct_change() * 100
WithDailyReturn(df) ==
    [i \in DOMAIN df |->
        [df[i] EXCEPT !.Daily_Return =
            RatMul(PctChange(df, i, PrevInGroup(df, i)), Rat(100, 1))]]

\* no dropna at all
KeepAll(df) == df

\* df.dropna(subset=['Daily_Return'])
DropNa(df) == LET HasReturn(r) == ~IsNaN(r.Daily_Return) IN SelectSeq(df, HasReturn)

\* get_stock_data without its `if all_data.empty` test
get_stock_data_unchecked(ticker_symbols, all_data) ==
    IF all_data.raises
    THEN [value |-> None, msgs |-> <<Msg("error", "Download failed")>>]
    ELSE [value |-> Frame(DropNa(WithDailyReturn(Stack(all_data.rows, all_data.columns)))),
          msgs |-> <<>>]

\* get_stock_data(ticker_symbols, period): the value returned and the
\* messages shown (st.warning, st.error) on the way.
get_stock_data(ticker_symbols, all_data) ==
    IF all_data.raises
    THEN [value |-> None, msgs |-> <<Msg("error", "Download failed")>>]
    ELSE IF all_data.rows = <<>>
    THEN [value |-> None, msgs |-> <<Msg("warning", "No data found")>>]
    ELSE LET df == IF all_data.multi
                   THEN Stack(all_data.rows, all_data.columns)
                   ELSE FlatFrame(all_data.rows, all_data.columns[1], ticker_symbols[1])
         IN  [value |-> Frame(DropNa(WithDailyReturn(df))), msgs |-> <<>>]

\* ------------------------------- dosc.py: create_candlestick_and_volume_charts

MinDate(df) == CHOOSE d \in {r.Date : r \in Range(df)} : \A r \in Range(df) : d <= r.Date

MaxDate(df) == CHOOSE d \in {r.Date : r \in Range(df)} : \A r \in Range(df) : r.Date <= d

RECURSIVE MonthBins(_, _)
MonthBins(ms, last) ==
    IF ms > last THEN <<>> ELSE <<ms>> \o MonthBins(NextMonthStart(ms), last)

\* The bin a row falls in.
\* months taken as 30-day blocks
BinByFixed30(d) == d - (d % 30)

BinOf(d) == MonthStart(d)

\* The sum of the Volume of the rows of df whose bin (row_bins) is b.
BinSum(df, row_bins, b) ==
    SeqSum([i \in DOMAIN df |-> IF row_bins[i] = b THEN df[i].Volume ELSE 0])

SumOverBins(df, row_bins, bins) ==
    [k \in DOMAIN bins |-> [Date |-> bins[k], Volume |-> BinSum(df, row_bins, bins[k])]]

\* df.set_index('Date')['Volume'].resample('MS').sum().reset_index(): one row
\* per calendar month from the first row's month to the last row's.
ResampleMonthlySum(df) ==
    SumOverBins(df, [i \in DOMAIN df |-> BinOf(df[i].Date)],
                MonthBins(BinOf(MinDate(df)), BinOf(MaxDate(df))))

\* an off-by-one threshold: >= 730
AtLeast730(time_delta_days) == time_delta_days >= 730

\* if time_delta_days > 730
UseMonthly(time_delta_days) == time_delta_days > 730

NoChart == [drawn |-> FALSE, df |-> <<>>, title |-> "", volume |-> <<>>, xaxis_range |-> <<>>]

\* The volume figure drawn for a non-empty frame, and the frame as the call
\* leaves it.
create_candlestick_and_volume_charts(df, ticker, end_date) ==
    LET time_delta_days == MaxDate(df) - MinDate(df)
    IN  IF UseMonthly(time_delta_days)
        THEN [drawn |-> TRUE, df |-> df, title |-> "Monthly Volume",
              volume |-> ResampleMonthlySum(df),
              xaxis_range |-> <<MinDate(df), end_date>>]
        ELSE [drawn |-> TRUE, df |-> df, title |-> "Daily Volume",
              volume |-> [i \in DOMAIN df |-> [Date |-> df[i].Date, Volume |-> df[i].Volume]],
              xaxis_range |-> <<MinDate(df), end_date>>]

\* ------------------------------------------------ dosc.py: the display_* panels

\* The yfinance.Ticker properties the panels read.
Accessors ==
    {"info", "income_stmt", "balance_sheet", "cashflow", "recommendations",
     "dividends", "splits"}

\* What reading a property gives in a cycle: data, an empty table, None
\* (recommendations only), or an exception of the provider.
AccessorOutcomes(a) ==
    IF a = "recommendations" THEN {"data", "empty", "none", "raise"}
    ELSE {"data", "empty", "raise"}

\* A stretch of the script: the messages it showed, the provider properties it
\* read, and the property whose exception left it ("" when it ran to its end).
Ran(msgs, calls) == [msgs |-> msgs, calls |-> calls, raised |-> ""]

Raised(msgs, calls, a) == [msgs |-> msgs, calls |-> calls, raised |-> a]

\* Statements in sequence: b runs only when a ran to its end.
Then(a, b) ==
    IF a.raised # "" THEN a
    ELSE [msgs |-> a.msgs \o b.msgs, calls |-> a.calls \o b.calls, raised |-> b.raised]

\* try: x = ticker_obj.<a>; show it, or a warning when it is empty
\* except Exception as e: st.error(...)
TryStatement(acc, a) ==
    IF acc[a] = "raise" THEN Ran(<<Msg("error", a)>>, <<a>>)
    ELSE IF acc[a] = "empty" THEN Ran(<<Msg("warning", a)>>, <<a>>)
    ELSE Ran(<<Msg("dataframe", a)>>, <<a>>)

\* x = ticker_obj.<a>; show it, or st.info when it is empty (no try)
BareStatement(acc, a) ==
    IF acc[a] = "raise" THEN Raised(<<>>, <<a>>, a)
    ELSE IF acc[a] \in {"empty", "none"} THEN Ran(<<Msg("info", a)>>, <<a>>)
    ELSE Ran(<<Msg("dataframe", a)>>, <<a>>)

display_financials(acc) ==
    Then(TryStatement(acc, "income_stmt"),
         Then(TryStatement(acc, "balance_sheet"), TryStatement(acc, "cashflow")))

display_key_stats(acc) ==
    IF acc["info"] = "raise" THEN Raised(<<>>, <<"info">>, "info")
    ELSE Ran(<<Msg("metric", "info")>>, <<"info">>)

display_actions(acc) ==
    Then(BareStatement(acc, "dividends"), BareStatement(acc, "splits"))

display_recommendations(acc) == BareStatement(acc, "recommendations")

\* ------------------------------------------------------ dosc.py: the script

\* str.upper, then str.strip, on a piece of the ticker text (the text is
\* held as its pieces between commas, as the user typed them).
Upper(p) ==
    CASE p = "aapl" -> "AAPL"
      [] p = " msft " -> " MSFT "
      [] OTHER -> p

Strip(p) ==
    CASE p = " GOOGL" -> "GOOGL"
      [] p = " MSFT" -> "MSFT"
      [] p = " MSFT " -> "MSFT"
      [] p = " TSLA" -> "TSLA"
      [] p = " SPY" -> "SPY"
      [] p = " " -> ""
      [] OTHER -> p

\* DEFAULT_TICKERS.split(',')
DEFAULT_TICKERS == <<"AAPL", " GOOGL", " MSFT", " TSLA", " SPY">>

\* [ticker.strip() for ticker in ticker_input.split(',') if ticker.strip()]
RECURSIVE ParseTickers(_)
ParseTickers(pieces) ==
    IF pieces = <<>> THEN <<>>
    ELSE (IF Strip(Upper(Head(pieces))) # "" THEN <<Strip(Upper(Head(pieces)))>> ELSE <<>>)
         \o ParseTickers(Tail(pieces))

PeriodLabels == <<"1-M", "6-M", "1-Y", "3-Y", "5-Y", "All">>

\* period_options, for the labels with a number of days
period_options ==
    [l \in {"1-M", "6-M", "1-Y", "3-Y", "5-Y"} |->
        CASE l = "1-M" -> 30
          [] l = "6-M" -> 180
          [] l = "1-Y" -> 365
          [] l = "3-Y" -> 3 * 365
          [] l = "5-Y" -> 5 * 365]

Absent == "<absent>"

\* if 'period' not in st.session_state: ... = "All"; then the button loop:
\* the clicked button (at most one per rerun, "" for none) sets the period.
\* (the stored label alone is what a run sees if the buttons are read after
\* the filter: the click then shows one run late)
StoredPeriodIgnoringClick(state, clicked) ==
    IF state.period = Absent THEN "All" ELSE state.period

PeriodAfterButtons(state, clicked) ==
    IF clicked # "" THEN clicked
    ELSE IF state.period = Absent THEN "All" ELSE state.period

\* sorted(full_stock_data['Ticker'].unique())
AvailableTickers(df) ==
    LET Present(t) == \E r \in Range(df) : r.Ticker = t IN SelectSeq(Tickers, Present)

\* st.selectbox: keeps the user's choice while the options stay the same, and
\* otherwise shows the first option.
NoSelectbox == [shown |-> FALSE, options |-> <<>>, value |-> ""]

SelectboxValue(prev, options, chosen) ==
    IF prev.shown /\ prev.options = options
    THEN (IF chosen # "" THEN chosen ELSE prev.value)
    ELSE options[1]

\* an exclusive lower bound: > start_date
FilterStrictlyAfter(full_stock_data, current_period, end_date) ==
    IF current_period = "All" THEN full_stock_data
    ELSE LET start_date == end_date - period_options[current_period]
             After(r) == r.Date > start_date
         IN  SelectSeq(full_stock_data, After)

\* filtered_data: the rows of the window
FilterByDate(full_stock_data, current_period, end_date) ==
    IF current_period = "All" THEN full_stock_data
    ELSE LET start_date == end_date - period_options[current_period]
             InWindow(r) == r.Date >= start_date
         IN  SelectSeq(full_stock_data, InWindow)

\* selected_data = filtered_data[filtered_data['Ticker'] == selected_ticker]
FilterByWindow(full_stock_data, current_period, selected_ticker, end_date) ==
    LET OfTicker(r) == r.Ticker = selected_ticker
    IN  SelectSeq(FilterByDate(full_stock_data, current_period, end_date), OfTicker)

\* @st.cache_data: the results get_stock_data has returned, by ticker list.
\* A hit returns the stored value and shows the stored messages again.
CacheHit(cache_data, ticker_symbols) == ticker_symbols \in DOMAIN cache_data

CachePut(cache_data, ticker_symbols, result) ==
    [k \in DOMAIN cache_data \cup {ticker_symbols} |->
        IF k = ticker_symbols THEN result ELSE cache_data[k]]

\* The sections of the tabs in the order the script runs them; the script
\* stops at the first section an exception leaves.
RECURSIVE RunSections(_)
RunSections(secs) ==
    IF secs = <<>> THEN [part |-> Ran(<<>>, <<>>), done |-> <<>>]
    ELSE LET h == Head(secs)
         IN  IF h.part.raised # "" THEN [part |-> h.part, done |-> <<>>]
             ELSE LET rest == RunSections(Tail(secs))
                  IN  [part |-> Then(h.part, rest.part), done |-> <<h.name>> \o rest.done]

Section(name, part) == [name |-> name, part |-> part]

\* What a run leaves behind when it shows nothing but the sidebar.
Blank(ticker_symbols, period, cache_data) ==
    [session_state |-> [period |-> period],
     ticker_symbols |-> ticker_symbols,
     cache_data |-> cache_data,
     selectbox |-> NoSelectbox,
     full_stock_data |-> None,
     current_period |-> "",
     selected_data |-> <<>>,
     chart |-> NoChart,
     messages |-> <<>>,
     sections |-> <<>>,
     exception |-> "",
     calls |-> <<>>]

\* with tab1: the KPIs and the charts, or a warning when selected_data is empty
TabOne(selected_data, fig) ==
    IF selected_data # <<>>
    THEN Ran(<<Msg("metric", "kpi"), Msg("chart", fig.title)>>, <<>>)
    ELSE Ran(<<Msg("warning", "No data available for the selected ticker")>>, <<>>)

Charted(shown, selected_data, fig) ==
    [shown EXCEPT !.selected_data = IF fig.drawn THEN fig.df ELSE selected_data,
                  !.chart = fig,
                  !.messages = @ \o TabOne(selected_data, fig).msgs,
                  !.sections = <<"tab1">>]

Filtered(shown, selected_data, selected_ticker, end_date) ==
    Charted(shown, selected_data,
            IF selected_data # <<>>
            THEN create_candlestick_and_volume_charts(selected_data, selected_ticker, end_date)
            ELSE NoChart)

\* if selected_ticker: ... (a drop-down with options always has a value)
Selected(shown, df, period, available_tickers, selected_ticker, end_date) ==
    Filtered([shown EXCEPT !.selectbox = [shown |-> TRUE, options |-> available_tickers,
                                          value |-> selected_ticker],
                           !.current_period = period],
             FilterByWindow(df, period, selected_ticker, end_date),
             selected_ticker, end_date)

Available(shown, df, period, available_tickers, chosen, box, end_date) ==
    Selected(shown, df, period, available_tickers,
             SelectboxValue(box, available_tickers, chosen), end_date)

\* if full_stock_data is not None and not full_stock_data.empty: ... else: ...
WithData(fetched, result, period, chosen, box, end_date) ==
    IF result.value.isNone \/ result.value.df = <<>>
    THEN [fetched EXCEPT !.full_stock_data = result.value,
                         !.messages = result.msgs
                                      \o <<Msg("warning", "No stock data was loaded")>>]
    ELSE Available([fetched EXCEPT !.full_stock_data = result.value,
                                   !.messages = result.msgs \o <<Msg("success", "loaded")>>],
                   result.value.df, period, AvailableTickers(result.value.df),
                   chosen, box, end_date)

\* A cache miss: get_stock_data has run, and its result is stored.
Missed(ticker_symbols, period, cache_data, result, chosen, box, end_date) ==
    WithData([Blank(ticker_symbols, period, CachePut(cache_data, ticker_symbols, result))
                 EXCEPT !.calls = <<"download">>],
             result, period, chosen, box, end_date)

\* if ticker_symbols: ... else: st.info(...), up to the end of tab1
Main(ticker_symbols, period, chosen, box, cache_data, download, end_date) ==
    IF ticker_symbols = <<>>
    THEN [Blank(ticker_symbols, period, cache_data) EXCEPT
             !.messages = <<Msg("info", "Please enter one or more ticker symbols")>>]
    ELSE IF CacheHit(cache_data, ticker_symbols)
    THEN WithData(Blank(ticker_symbols, period, cache_data), cache_data[ticker_symbols],
                  period, chosen, box, end_date)
    ELSE Missed(ticker_symbols, period, cache_data, get_stock_data(ticker_symbols, download),
                chosen, box, end_date)

\* The script from its top to the end of tab1.  state is st.session_state,
\* pieces the ticker text, clicked the period button that triggered the run
\* ("" when none did), chosen the ticker picked in the drop-down ("" when none
\* was), box the drop-down as the previous run left it, download what
\* yf.download answers when it is called.  No statement up to here reads a
\* property of the Ticker object.
UpToTabOne(state, pieces, clicked, chosen, box, cache_data, download, end_date) ==
    Main(ParseTickers(pieces), PeriodAfterButtons(state, clicked), chosen, box, cache_data,
         download, end_date)

\* with tab2, tab3, tab4, in the order the script fills them
Panels(a) ==
    <<Section("key_stats", display_key_stats(a)),
      Section("financials", display_financials(a)),
      Section("recommendations", display_recommendations(a)),
      Section("actions", display_actions(a))>>

PanelsDone(upto, tabs) ==
    [upto EXCEPT !.messages = @ \o tabs.part.msgs,
                 !.sections = @ \o tabs.done,
                 !.exception = tabs.part.raised,
                 !.calls = @ \o tabs.part.calls]

\* The rest of the script: it runs only inside `if selected_ticker:`.  a is
\* what the Ticker properties answer.
TabsTwoToFour(upto, a) ==
    IF upto.sections = <<>> THEN upto ELSE PanelsDone(upto, RunSections(Panels(a)))

\* One run of the script, top to bottom.
Script(state, pieces, clicked, chosen, box, cache_data, download, a, end_date) ==
    TabsTwoToFour(UpToTabOne(state, pieces, clicked, chosen, box, cache_data, download,
                             end_date), a)

\* ---------------------------------------------------------------- variables

VARIABLES
    session_state,    \* st.session_state: [period |-> label], Absent before the first run
    ticker_input,     \* the ticker text box, as pieces between commas
    selectbox,        \* the ticker drop-down as the last run showed it
    cache_data,       \* the st.cache_data store of get_stock_data
    all_data,         \* what yf.download answered in the last run that called it
    acc,              \* what the Ticker properties answered in the last run
    ticker_symbols,   \* the last run's parsed ticker list
    full_stock_data,  \* the last run's full_stock_data
    current_period,   \* the window the last run filtered with ("" when it did not)
    selected_data,    \* the last run's selected_data
    chart,            \* the last run's volume figure
    messages,         \* what the last run showed, in order
    sections,         \* the tab sections the last run completed
    exception,        \* the property whose exception ended the last run ("" if none)
    calls,            \* the provider accesses of the last run, in order
    trigger,          \* what started the last run
    pc,               \* "start" before the first run, then "rendered"
    script,           \* export: which of the two scripts runs (1 or 2)
    layout,           \* export: the columns of the frames yf.download returns
    xpc,              \* export: where the script is
    date_strs,        \* export: the two strings typed at the prompts
    dates,            \* export: start_date and end_date once parsed
    provided,         \* export: rows the provider returned, per ticker downloaded
    all_stock_data,   \* export: the list of per-ticker frames
    csv,              \* export: the file written, if any
    stdout,           \* export: what the script printed
    exit_status       \* export: the process's exit status once it ended

dashVars ==
    <<session_state, ticker_input, selectbox, cache_data, all_data, acc, ticker_symbols,
      full_stock_data, current_period, selected_data, chart, messages, sections,
      exception, calls, trigger, pc>>

exportVars ==
    <<script, layout, xpc, date_strs, dates, provided, all_stock_data, csv, stdout, exit_status>>

vars == <<dashVars, exportVars>>

\* ------------------------------------------------------ dashboard: actions

\* The provider's tickers among the requested ones, in column order.
Known(symbols) == LET Asked(t) == t \in Range(symbols) IN SelectSeq(Tickers, Asked)

NoDownload == DownloadTable(TRUE, <<>>, <<>>)

\* Every property answers with data.
Quiet == [a \in Accessors |-> "data"]

NoTrigger == [kind |-> "", arg |-> ""]

\* One rerun of the script and what it leaves behind; the Ticker properties
\* answer with one of answers.
Cycle(why, clicked, chosen, pieces, download, answers) ==
    \E upto \in {UpToTabOne(session_state, pieces, clicked, chosen, selectbox, cache_data,
                            download, Today)} :
    \E a \in IF upto.sections = <<>> THEN {acc} ELSE answers :
    \E r \in {TabsTwoToFour(upto, a)} :
        /\ session_state' = r.session_state
        /\ ticker_input' = pieces
        /\ selectbox' = r.selectbox
        /\ cache_data' = r.cache_data
        /\ all_data' = IF "download" \in Range(r.calls) THEN download ELSE all_data
        /\ acc' = a
        /\ ticker_symbols' = r.ticker_symbols
        /\ full_stock_data' = r.full_stock_data
        /\ current_period' = r.current_period
        /\ selected_data' = r.selected_data
        /\ chart' = r.chart
        /\ messages' = r.messages
        /\ sections' = r.sections
        /\ exception' = r.exception
        /\ calls' = r.calls
        /\ trigger' = why
        /\ pc' = "rendered"
        /\ UNCHANGED exportVars

\* The answers the provider may give in a session: the download fails, finds
\* nothing, or returns four trading days (MSFT has no quote on the last).
SessionDates == <<Today - 1500, Today - 800, Today - 40, Today - 10>>

SessionCloses == <<100, 110, 99, 100>>

SessionRows(cols) ==
    [i \in DOMAIN SessionDates |->
        [Date |-> SessionDates[i],
         q |-> [t \in Range(cols) |->
                  IF t = "MSFT" /\ i = Len(SessionDates) THEN NoCell
                  ELSE Cell(SessionCloses[i], 5)]]]

SessionDownloads(symbols) ==
    LET cols == Known(symbols)
    IN  {DownloadRaises, DownloadTable(TRUE, cols, <<>>)}
        \cup (IF cols = <<>> THEN {}
              ELSE {DownloadTable(m, cols, SessionRows(cols)) :
                      m \in IF Len(symbols) = 1 THEN {TRUE, FALSE} ELSE {TRUE}})

\* yf.download is called only on a cache miss.
DownloadDraws(pieces) ==
    IF ParseTickers(pieces) = <<>> \/ CacheHit(cache_data, ParseTickers(pieces))
    THEN {all_data}
    ELSE SessionDownloads(ParseTickers(pieces))

SessionAcc ==
    {a \in [Accessors -> {"data", "raise"}] :
        Cardinality({x \in Accessors : a[x] = "raise"}) <= MaxFailures}

TickerInputs == {DEFAULT_TICKERS, <<"aapl", " ">>, <<"", " ">>}

\* The page is opened: the first run of the script.
PageLoad ==
    /\ pc = "start"
    /\ \E download \in DownloadDraws(ticker_input) :
          Cycle([kind |-> "load", arg |-> ""], "", "", ticker_input, download, SessionAcc)

\* The user edits the ticker text.
EditTickers ==
    /\ pc = "rendered"
    /\ \E pieces \in TickerInputs \ {ticker_input} :
       \E download \in DownloadDraws(pieces) :
          Cycle([kind |-> "edit", arg |-> ""], "", "", pieces, download, SessionAcc)

\* The user clicks one of the period buttons.
ClickPeriod ==
    /\ pc = "rendered"
    /\ \E label \in Range(PeriodLabels) :
       \E download \in DownloadDraws(ticker_input) :
          Cycle([kind |-> "click", arg |-> label], label, "", ticker_input, download, SessionAcc)

\* The user picks another ticker in the drop-down.
SelectTicker ==
    /\ pc = "rendered"
    /\ selectbox.shown
    /\ \E t \in Range(selectbox.options) \ {selectbox.value} :
       \E download \in DownloadDraws(ticker_input) :
          Cycle([kind |-> "select", arg |-> t], "", t, ticker_input, download, SessionAcc)

\* A harness run: the script runs once on the inputs Init drew.
Replay ==
    /\ pc = "start"
    /\ Cycle([kind |-> "load", arg |-> ""], "", "", ticker_input, all_data, {acc})

\* pd.to_datetime on the strings a user may type: a date, NaT for the empty
\* string, a ValueError for anything that is no date.
to_datetime(str) ==
    CASE str = "2023-01-01" -> [error |-> FALSE, nat |-> FALSE, day |-> 19358]
      [] str = "2023-01-05" -> [error |-> FALSE, nat |-> FALSE, day |-> 19362]
      [] str = "" -> [error |-> FALSE, nat |-> TRUE, day |-> 0]
      [] OTHER -> [error |-> TRUE, nat |-> FALSE, day |-> 0]

NoFile == [written |-> FALSE, columns |-> <<>>, rows |-> <<>>]

\* The export scripts are not running.
ExportIdle ==
    /\ script = 0
    /\ layout = <<>>
    /\ xpc = "idle"
    /\ date_strs = <<"", "">>
    /\ dates = <<to_datetime(""), to_datetime("")>>
    /\ provided = <<>>
    /\ all_stock_data = <<>>
    /\ csv = NoFile
    /\ stdout = <<>>
    /\ exit_status = -1

\* A session nobody has rendered yet, with the inputs given.
DashStart(state, pieces, box, download, a) ==
    /\ session_state = state
    /\ ticker_input = pieces
    /\ selectbox = box
    /\ cache_data = <<>>
    /\ all_data = download
    /\ acc = a
    /\ ticker_symbols = <<>>
    /\ full_stock_data = None
    /\ current_period = ""
    /\ selected_data = <<>>
    /\ chart = NoChart
    /\ messages = <<>>
    /\ sections = <<>>
    /\ exception = ""
    /\ calls = <<>>
    /\ trigger = NoTrigger
    /\ pc = "start"

Init ==
    /\ DashStart([period |-> Absent], DEFAULT_TICKERS, NoSelectbox, NoDownload, Quiet)
    /\ ExportIdle

Next == PageLoad \/ EditTickers \/ ClickPeriod \/ SelectTicker

Spec == Init /\ [][Next]_vars

\* ------------------------------------------- get_stock_data on its own inputs

\* The closing prices a ticker is quoted at: a rise and a fall for AAPL, a
\* flat price for MSFT.
Closes(ticker) == IF ticker = "AAPL" THEN {99, 100, 110} ELSE {99}

\* The wide tables of n trading days over the columns cols, every cell one of
\* its column's quotes, or missing where gaps are allowed.
WideTables(cols, n, gaps) ==
    LET Cells(t) == gaps \cup {Cell(c, 1) : c \in Closes(t)}
    IN  {[i \in 1..n |-> [Date |-> Today - (n - i), q |-> qs[i]]] :
            qs \in [1..n -> {q \in [Range(cols) -> UNION {Cells(t) : t \in Range(cols)}] :
                                \A t \in Range(cols) : q[t] \in Cells(t)}]}

NormalizeDownloads(symbols) ==
    {DownloadRaises}
    \cup UNION {{DownloadTable(TRUE, Known(symbols), rows) :
                   rows \in WideTables(Known(symbols), n, {NoCell})} :
                n \in 0..MaxDays}
    \cup (IF Len(symbols) # 1 THEN {}
          ELSE UNION {{DownloadTable(FALSE, Known(symbols), rows) :
                         rows \in WideTables(Known(symbols), n, {})} :
                      n \in 1..MaxDays})

InitNormalize ==
    /\ ExportIdle
    /\ \E pieces \in {<<"aapl", " ">>, <<"aapl", " msft ">>} :
       \E download \in NormalizeDownloads(ParseTickers(pieces)) :
          DashStart([period |-> Absent], pieces, NoSelectbox, download, Quiet)

SpecNormalize == InitNormalize /\ [][Replay]_vars

\* ------------------------------------------- the window filter on its own inputs

\* The days on either side of each window's first day, and today.
WindowDates ==
    {Today} \cup UNION {{Today - (w + 1), Today - w, Today - (w - 1)} :
                          w \in {period_options[l] : l \in DOMAIN period_options}}

RECURSIVE Sorted(_)
Sorted(S) ==
    IF S = {} THEN <<>>
    ELSE LET m == CHOOSE x \in S : \A y \in S : x <= y IN <<m>> \o Sorted(S \ {m})

\* A leading trading day long ago, then the given days; with sparse, MSFT has
\* no quote on the last of them.
WindowRows(days, sparse) ==
    [i \in 1..(Len(days) + 1) |->
        [Date |-> IF i = 1 THEN Today - 2000 ELSE days[i - 1],
         q |-> [t \in Range(Tickers) |->
                  IF sparse /\ t = "MSFT" /\ i > 1 /\ i = Len(days) + 1 THEN NoCell
                  ELSE Cell(100 + i, 5)]]]

WindowDownloads ==
    {DownloadTable(TRUE, Tickers, WindowRows(Sorted(S), sparse)) :
        S \in {T \in SUBSET WindowDates : Cardinality(T) <= MaxWindowDates},
        sparse \in BOOLEAN}

InitWindow ==
    /\ ExportIdle
    /\ \E download \in WindowDownloads, label \in Range(PeriodLabels),
          box \in {NoSelectbox, [shown |-> TRUE, options |-> Tickers, value |-> "MSFT"]} :
          DashStart([period |-> label], <<"aapl", " msft ">>, box, download, Quiet)

SpecWindow == InitWindow /\ [][Replay]_vars

\* ------------------------------------------- the volume chart on its own inputs

VolumeOffsets == {0, 1, 31, 365, 730, 731, 1095}

Volumes == {3, 5}

\* A leading trading day, then a quote of AAPL on each of the given days.
VolumeRows(days, vol) ==
    [i \in 1..(Len(days) + 1) |->
        [Date |-> IF i = 1 THEN Today - 1101 ELSE days[i - 1],
         q |-> [t \in {"AAPL"} |-> Cell(100, IF i = 1 THEN 1 ELSE vol[days[i - 1]])]]]

VolumeDownloads ==
    {DownloadTable(TRUE, <<"AAPL">>, VolumeRows(Sorted(DOMAIN vol), vol)) :
        vol \in UNION {[S -> Volumes] : S \in SUBSET {Today - 1100 + o : o \in VolumeOffsets}}}

InitVolume ==
    /\ ExportIdle
    /\ \E download \in VolumeDownloads :
          DashStart([period |-> "All"], <<"aapl", " ">>, NoSelectbox, download, Quiet)

SpecVolume == InitVolume /\ [][Replay]_vars

\* ------------------------------------------------ the tabs on their own inputs

AllAnswers ==
    {a \in [Accessors -> {"data", "empty", "none", "raise"}] :
        \A x \in Accessors : a[x] \in AccessorOutcomes(x)}

InitTabs ==
    /\ ExportIdle
    /\ \E a \in AllAnswers, download \in SessionDownloads(ParseTickers(DEFAULT_TICKERS)) :
          DashStart([period |-> Absent], DEFAULT_TICKERS, NoSelectbox, download, a)

SpecTabs == InitTabs /\ [][Replay]_vars

\* ------------------------------------------- get_stock_data.py: the two scripts

\* ticker_symbols of the first and of the second script
ticker_symbols_1 == <<"AAPL", "GOOGL", "MSFT">>

ticker_symbols_2 == <<"AAPL", "GOOGL", "MSFT", "TSLA">>

\* The column orders yfinance versions give a single-ticker frame.
Layouts ==
    {<<"Open", "High", "Low", "Close", "Volume">>,
     <<"Close", "High", "Low", "Open", "Volume">>,
     <<"Open", "High", "Low", "Close", "Adj Close", "Volume">>}

\* What yf.download answers for one ticker: n rows, an empty frame, or an
\* exception; no rows exist for a range with an undefined end.
RowsAnswer(n) == [kind |-> "rows", n |-> n]

EmptyAnswer == [kind |-> "empty", n |-> 0]

RaiseAnswer == [kind |-> "raise", n |-> 0]

Answers(range) ==
    {EmptyAnswer, RaiseAnswer}
    \cup (IF range[1].nat \/ range[2].nat THEN {} ELSE {RowsAnswer(n) : n \in 1..MaxRows})

\* The frame of an answer with n rows, the index (Date) kept beside the rows.
ProviderRows(range, n) ==
    [i \in 1..n |->
        [Date |-> range[1].day + (i - 1), Ticker |-> "", Close |-> 100 + i,
         Volume |-> 5, Daily_Return |-> NaN]]

\* stock_data_single['Ticker'] = ticker
WithTicker(rows, ticker) == [i \in DOMAIN rows |-> [rows[i] EXCEPT !.Ticker = ticker]]

\* stock_data_single['Daily_Return'] = stock_data_single['Close'].pct_change() * 100
WithReturnOfFrame(rows) ==
    [i \in DOMAIN rows |->
        [rows[i] EXCEPT !.Daily_Return = RatMul(PctChange(rows, i, i - 1), Rat(100, 1))]]

required_financial_cols == <<"Open", "High", "Low", "Close", "Volume">>

\* [col for col in required_financial_cols if col in stock_data_single.columns]
existing_financial_cols(columns) ==
    LET Exists(col) == col \in Range(columns) IN SelectSeq(required_financial_cols, Exists)

RECURSIVE Concat(_)
Concat(frames) == IF frames = <<>> THEN <<>> ELSE Head(frames).rows \o Concat(Tail(frames))

Exported(ans, ticker) == [ticker |-> ticker, kind |-> ans.kind, n |-> ans.n]

\* First script, lines 12-21: the prompts and the parse; exit() ends the
\* process with status 0.
Prompt1 ==
    /\ script = 1 /\ xpc = "prompt"
    /\ \E start \in {to_datetime(date_strs[1])} :
          IF start.error \/ to_datetime(date_strs[2]).error
          THEN /\ stdout' = stdout \o <<"Invalid date format. Please use YYYY-MM-DD.">>
               /\ exit_status' = 0
               /\ xpc' = "done"
               /\ UNCHANGED dates
          ELSE /\ dates' = <<start, to_datetime(date_strs[2])>>
               /\ xpc' = "loop"
               /\ UNCHANGED <<stdout, exit_status>>
    /\ UNCHANGED <<script, layout, date_strs, provided, all_stock_data, csv, dashVars>>

\* First script, lines 27-72: the body of the loop for the next ticker.
Download1 ==
    /\ script = 1 /\ xpc = "loop"
    /\ \E ans \in Answers(dates), ticker \in {ticker_symbols_1[Len(provided) + 1]} :
          /\ provided' = Append(provided, Exported(ans, ticker))
          /\ IF ans.kind = "raise"
             THEN /\ stdout' = stdout \o <<"Error downloading data">>
                  /\ UNCHANGED all_stock_data
             ELSE IF ans.kind = "empty"
             THEN /\ stdout' = stdout \o <<"No data found">>
                  /\ UNCHANGED all_stock_data
             ELSE IF Len(existing_financial_cols(layout)) < Len(required_financial_cols)
             THEN /\ stdout' = stdout \o <<"Warning: Not all required financial columns found">>
                  /\ UNCHANGED all_stock_data
             ELSE /\ all_stock_data' =
                        Append(all_stock_data,
                               [columns |-> <<"Date">> \o existing_financial_cols(layout)
                                            \o <<"Ticker", "Daily_Return">>,
                                rows |-> DropNa(WithReturnOfFrame(
                                            WithTicker(ProviderRows(dates, ans.n), ticker)))])
                  /\ UNCHANGED stdout
          /\ xpc' = IF Len(provided) + 1 = Len(ticker_symbols_1) THEN "combine" ELSE "loop"
    /\ UNCHANGED <<script, layout, date_strs, dates, csv, exit_status, dashVars>>

\* First script, lines 74-84: concat and to_csv(index=False), or exit().
Combine1 ==
    /\ script = 1 /\ xpc = "combine"
    /\ IF all_stock_data = <<>>
       THEN /\ stdout' = stdout \o <<"No stock data was successfully downloaded">>
            /\ UNCHANGED csv
       ELSE /\ csv' = [written |-> TRUE, columns |-> Head(all_stock_data).columns,
                       rows |-> Concat(all_stock_data)]
            /\ stdout' = stdout \o <<"Combined data saved">>
    /\ exit_status' = 0
    /\ xpc' = "done"
    /\ UNCHANGED <<script, layout, date_strs, dates, provided, all_stock_data, dashVars>>

\* Second script, lines 101-106: the prompts and the parse, outside any try:
\* a ValueError ends the process with a traceback and status 1.
Prompt2 ==
    /\ script = 2 /\ xpc = "prompt"
    /\ \E start \in {to_datetime(date_strs[1])} :
          IF start.error \/ to_datetime(date_strs[2]).error
          THEN /\ stdout' = stdout \o <<"Traceback (most recent call last): ValueError">>
               /\ exit_status' = 1
               /\ xpc' = "done"
               /\ UNCHANGED dates
          ELSE /\ dates' = <<start, to_datetime(date_strs[2])>>
               /\ xpc' = "loop"
               /\ UNCHANGED <<stdout, exit_status>>
    /\ UNCHANGED <<script, layout, date_strs, provided, all_stock_data, csv, dashVars>>

\* Second script, lines 110-131: the body of the loop for the next ticker.
Download2 ==
    /\ script = 2 /\ xpc = "loop"
    /\ \E ans \in Answers(dates), ticker \in {ticker_symbols_2[Len(provided) + 1]} :
          /\ provided' = Append(provided, Exported(ans, ticker))
          /\ IF ans.kind = "raise"
             THEN /\ stdout' = stdout \o <<"Failed to download data">>
                  /\ UNCHANGED all_stock_data
             ELSE IF ans.kind = "empty"
             THEN /\ stdout' = stdout \o <<"--- Data", "No data found">>
                  /\ UNCHANGED all_stock_data
             ELSE /\ all_stock_data' =
                        Append(all_stock_data,
                               [columns |-> <<"Date">> \o layout \o <<"Ticker", "Daily_Return">>,
                                rows |-> WithReturnOfFrame(
                                            WithTicker(ProviderRows(dates, ans.n), ticker))])
                  /\ stdout' = stdout \o <<"--- Data">>
          /\ xpc' = IF Len(provided) + 1 = Len(ticker_symbols_2) THEN "combine" ELSE "loop"
    /\ UNCHANGED <<script, layout, date_strs, dates, csv, exit_status, dashVars>>

\* Second script, lines 133-148: concat and to_csv(index=True), or a message.
Combine2 ==
    /\ script = 2 /\ xpc = "combine"
    /\ IF all_stock_data # <<>>
       THEN /\ csv' = [written |-> TRUE, columns |-> Head(all_stock_data).columns,
                       rows |-> Concat(all_stock_data)]
            /\ stdout' = stdout \o <<"--- Combined Data", "Combined data saved">>
       ELSE /\ stdout' = stdout \o <<"No data was downloaded for any ticker">>
            /\ UNCHANGED csv
    /\ exit_status' = 0
    /\ xpc' = "done"
    /\ UNCHANGED <<script, layout, date_strs, dates, provided, all_stock_data, dashVars>>

StartStrings == {"2023-01-01", "2023-13-45", ""}

EndStrings == {"2023-01-05", "next week", ""}

InitExport ==
    /\ DashStart([period |-> Absent], DEFAULT_TICKERS, NoSelectbox, NoDownload, Quiet)
    /\ script \in {1, 2}
    /\ layout \in Layouts
    /\ xpc = "prompt"
    /\ date_strs \in StartStrings \X EndStrings
    /\ dates = <<to_datetime(""), to_datetime("")>>
    /\ provided = <<>>
    /\ all_stock_data = <<>>
    /\ csv = NoFile
    /\ stdout = <<>>
    /\ exit_status = -1

NextExport == Prompt1 \/ Download1 \/ Combine1 \/ Prompt2 \/ Download2 \/ Combine2

SpecExport == InitExport /\ [][NextExport]_vars

\* ------------------------------------------------------------------ claims

\* The days on which the raw table the last download returned quotes ticker t.
RawDays(t) ==
    {w.Date : w \in {x \in Range(all_data.rows) : t \in DOMAIN x.q /\ x.q[t].has}}

RawClose(t, d) == (CHOOSE w \in Range(all_data.rows) : w.Date = d).q[t].Close

FirstDay(t) == CHOOSE d \in RawDays(t) : \A e \in RawDays(t) : d <= e

\* The day of t's raw row right before day d.
DayBefore(t, d) ==
    CHOOSE e \in RawDays(t) : e < d /\ \A f \in RawDays(t) : f < d => f <= e

Normalized == pc = "rendered" /\ ~all_data.raises /\ all_data.rows # <<>>

ReturnsOf(t) ==
    LET OfT(r) == r.Ticker = t
        rows == SelectSeq(full_stock_data.df, OfT)
    IN  [i \in DOMAIN rows |-> rows[i].Daily_Return]

RawClosesOf(t) == LET days == Sorted(RawDays(t)) IN [i \in DOMAIN days |-> RawClose(t, days[i])]

\* C1: for a non-empty raw table, get_stock_data returns a frame in which
\* every row has a Daily_Return that is not NaN, and in which no ticker's
\* chronologically first raw row appears.
C1_NoNullReturnNoLeadingRow ==
    Normalized =>
        /\ ~full_stock_data.isNone
        /\ \A r \in Range(full_stock_data.df) : ~IsNaN(r.Daily_Return)
        /\ \A t \in Range(all_data.columns) :
              RawDays(t) # {} =>
                 ~\E r \in Range(full_stock_data.df) : r.Ticker = t /\ r.Date = FirstDay(t)

\* C1's case: two tickers, rows interleaved by date, each with a row returned.
C1_Witness ==
    /\ Normalized
    /\ \A t \in Range(Tickers) : Cardinality(RawDays(t)) >= 2
    /\ \A t \in Range(Tickers) : \E r \in Range(full_stock_data.df) : r.Ticker = t

\* C2: every returned row's Daily_Return is (close - previous close) /
\* previous close * 100, the previous close being that of the raw row of the
\* same ticker right before it in date order, whatever rows of other tickers
\* lie between; closes 100, 110, 99 give the returns 10 and -10.
C2_ReturnFromSameTicker ==
    Normalized =>
        /\ \A r \in Range(full_stock_data.df) :
              /\ \E e \in RawDays(r.Ticker) : e < r.Date
              /\ r.Daily_Return =
                    Rat((r.Close - RawClose(r.Ticker, DayBefore(r.Ticker, r.Date))) * 100,
                        RawClose(r.Ticker, DayBefore(r.Ticker, r.Date)))
        /\ \A t \in Range(all_data.columns) :
              RawClosesOf(t) = <<100, 110, 99>> => ReturnsOf(t) = <<<<10, 1>>, <<-10, 1>>>>

\* C2's case: AAPL closes 100, 110, 99 while MSFT, quoted on the same days,
\* closes at 99 throughout.
C2_Witness ==
    /\ Normalized
    /\ all_data.columns = Tickers
    /\ RawClosesOf("AAPL") = <<100, 110, 99>>
    /\ RawClosesOf("MSFT") = <<99, 99, 99>>
    /\ ReturnsOf("AAPL") = <<<<10, 1>>, <<-10, 1>>>>

\* The days of each finite window, as the specification lists them.
WindowDays(label) ==
    CASE label = "1-M" -> 30
      [] label = "6-M" -> 180
      [] label = "1-Y" -> 365
      [] label = "3-Y" -> 1095
      [] label = "5-Y" -> 1825

InWindowOf(r, label) == label = "All" \/ r.Date >= Today - WindowDays(label)

AllSections == <<"tab1", "key_stats", "financials", "recommendations", "actions">>

\* C3: selected_data is exactly the rows of the selected ticker whose date is
\* on or after today - windowDays (all its rows for "All"), in their order;
\* when there are none the run shows a warning in tab1, draws no chart and
\* goes on to the other tabs.
C3_FilterByWindow ==
    (pc = "rendered" /\ selectbox.shown) =>
        /\ current_period = session_state.period
        /\ LET Wanted(r) == r.Ticker = selectbox.value /\ InWindowOf(r, current_period)
           IN  selected_data = SelectSeq(full_stock_data.df, Wanted)
        /\ selected_data = <<>> =>
              /\ ~chart.drawn
              /\ \E i \in DOMAIN messages :
                    messages[i] = Msg("warning", "No data available for the selected ticker")
              /\ exception = ""
              /\ sections = AllSections

\* C3's case: a one-month window with a row of the selected ticker on its
\* first day, kept, and one the day before, left out.
C3_Witness ==
    /\ pc = "rendered"
    /\ current_period = "1-M"
    /\ \E r \in Range(selected_data) : r.Date = Today - 30
    /\ \E r \in Range(full_stock_data.df) : r.Ticker = selectbox.value /\ r.Date = Today - 31
    /\ \A r \in Range(selected_data) : r.Date # Today - 31

\* This run called yf.download, which returned an empty table.
EmptyDownload ==
    pc = "rendered" /\ "download" \in Range(calls) /\ ~all_data.raises /\ all_data.rows = <<>>

\* C4: on an empty raw table get_stock_data shows a warning and returns None,
\* and the run that receives it shows a warning and ends without a chart, a
\* tab or a read of the missing frame.
C4_EmptyIsNoData ==
    EmptyDownload =>
        /\ full_stock_data.isNone
        /\ messages = <<Msg("warning", "No data found"),
                        Msg("warning", "No stock data was loaded")>>
        /\ ~chart.drawn
        /\ selected_data = <<>>
        /\ sections = <<>>
        /\ exception = ""
        /\ calls = <<"download">>

C4_Witness == EmptyDownload /\ trigger.kind = "edit"

\* The provider accesses of the last run that failed.
FailedAccesses ==
    {i \in DOMAIN calls :
        IF calls[i] = "download" THEN all_data.raises ELSE acc[calls[i]] = "raise"}

\* C5: every failure of a provider access in a run is caught where it is made
\* and shown as a message: no exception leaves the section, the sections after
\* it are rendered, and no access is made twice in a run.
C5_FailuresCaught ==
    pc = "rendered" =>
        /\ \A i \in FailedAccesses :
              /\ exception = ""
              /\ \E k \in DOMAIN messages : messages[k].kind = "error"
              /\ calls[i] # "download" => sections = AllSections
        /\ \A i, j \in DOMAIN calls : calls[i] = calls[j] => i = j

SameMonth(d, e) ==
    CivilFromDays(d).y = CivilFromDays(e).y /\ CivilFromDays(d).m = CivilFromDays(e).m

Span(df) == MaxDate(df) - MinDate(df)

DailySeries(df) == [i \in DOMAIN df |-> [Date |-> df[i].Date, Volume |-> df[i].Volume]]

\* C8: the volume chart is monthly, one bar per calendar month labelled with
\* the month's first day, exactly when the last date is more than 730 days
\* after the first; otherwise it is the daily series unchanged.
C8_MonthlyIffOver730 ==
    chart.drawn =>
        /\ chart.title \in {"Monthly Volume", "Daily Volume"}
        /\ chart.title = "Monthly Volume" <=> Span(selected_data) > 730
        /\ chart.title = "Daily Volume" => chart.volume = DailySeries(selected_data)
        /\ chart.title = "Monthly Volume" =>
              /\ \A k \in DOMAIN chart.volume : CivilFromDays(chart.volume[k].Date).d = 1
              /\ \A k \in DOMAIN chart.volume : k > 1 =>
                    chart.volume[k - 1].Date < chart.volume[k].Date
              /\ \A i \in DOMAIN selected_data : \E k \in DOMAIN chart.volume :
                    SameMonth(selected_data[i].Date, chart.volume[k].Date)

\* C8's case: a span of exactly 730 days, charted daily.
C8_Witness ==
    /\ chart.drawn
    /\ Span(selected_data) = 730
    /\ chart.title = "Daily Volume"
    /\ Len(selected_data) >= 2

VolumeInMonth(df, d) ==
    SeqSum([i \in DOMAIN df |-> IF SameMonth(df[i].Date, d) THEN df[i].Volume ELSE 0])

\* C9: every monthly bar is the sum of the volumes of the rows dated in its
\* month, the bars add up to the sum of the daily volumes, and selected_data
\* is after the call what the filter produced.
C9_MonthlySumsPreserveTotal ==
    (chart.drawn /\ chart.title = "Monthly Volume") =>
        /\ \A k \in DOMAIN chart.volume :
              chart.volume[k].Volume = VolumeInMonth(selected_data, chart.volume[k].Date)
        /\ SeqSum([k \in DOMAIN chart.volume |-> chart.volume[k].Volume])
              = SeqSum([i \in DOMAIN selected_data |-> selected_data[i].Volume])
        /\ LET Wanted(r) == r.Ticker = selectbox.value /\ InWindowOf(r, current_period)
           IN  selected_data = SelectSeq(full_stock_data.df, Wanted)

\* C9's case: a monthly chart with two rows in one month and a row on the
\* first day of another.
C9_Witness ==
    /\ chart.drawn
    /\ chart.title = "Monthly Volume"
    /\ \E i, j \in DOMAIN selected_data :
          i # j /\ SameMonth(selected_data[i].Date, selected_data[j].Date)
    /\ \E k \in DOMAIN chart.volume : chart.volume[k].Volume = 8

StoredPeriod == IF session_state.period = Absent THEN "All" ELSE session_state.period

\* C10: in every run the selected window is one of the six labels; a run a
\* period button triggered stores the clicked label and filters with it; any
\* other run keeps the stored label ("All" when none was ever clicked) and
\* filters with it.
C10_PeriodFollowsClicks ==
    [][/\ session_state'.period \in Range(PeriodLabels)
       /\ trigger'.kind = "click" => session_state'.period = trigger'.arg
       /\ trigger'.kind # "click" => session_state'.period = StoredPeriod
       /\ current_period' # "" => current_period' = session_state'.period]_vars

\* C10's case: a ticker picked in the drop-down after a click on 6-M.
C10_Witness ==
    /\ trigger.kind = "select"
    /\ session_state.period = "6-M"
    /\ current_period = "6-M"

RowsOfTicker(rows, t) == LET OfT(r) == r.Ticker = t IN SelectSeq(rows, OfT)

\* C6: the CSV either script writes holds, for every ticker the provider
\* returned n >= 1 rows for, exactly n - 1 rows, none with a null
\* Daily_Return, under the columns Date, Open, High, Low, Close, Volume,
\* Ticker, Daily_Return in that order.
C6_CsvDropsLeadingDay ==
    (xpc = "done" /\ \E i \in DOMAIN provided : provided[i].kind = "rows") =>
        /\ csv.written
        /\ \A i \in DOMAIN provided :
              provided[i].kind = "rows" =>
                 Len(RowsOfTicker(csv.rows, provided[i].ticker)) = provided[i].n - 1
        /\ \A r \in Range(csv.rows) : ~IsNaN(r.Daily_Return)
        /\ csv.columns = <<"Date", "Open", "High", "Low", "Close", "Volume", "Ticker",
                           "Daily_Return">>

IsDate(str) == str \in {"2023-01-01", "2023-01-05"}

\* C7: when the start or the end string is no valid date, either script
\* prints an invalid-input message and ends with a nonzero status, having
\* downloaded nothing and written no CSV.
C7_InvalidDateAborts ==
    (xpc = "done" /\ (~IsDate(date_strs[1]) \/ ~IsDate(date_strs[2]))) =>
        /\ "Invalid date format. Please use YYYY-MM-DD." \in Range(stdout)
        /\ exit_status # 0
        /\ provided = <<>>
        /\ ~csv.written

=============================================================================
